---- MODULE Spec2Model ----
(***************************************************************************)
(* Model of the webhook receiver of github-ai-reviewer: the synchronous    *)
(* handler of server.py and the asynchronous handler of async_server.py.   *)
(* One behaviour of the model is one POST /webhook invocation: Init draws  *)
(* the request and the process environment, the actions are the steps of   *)
(* the handler in program order, and the outcomes of the calls to the      *)
(* source host and to the LLM are chosen when the call is made.            *)
(*                                                                         *)
(* Text is a sequence of one-character strings, bytes are numbers in       *)
(* 0..255, and Python's None is the empty option <<>> (a present value x   *)
(* is <<x>>).                                                              *)
(***************************************************************************)
EXTENDS Integers, Sequences, FiniteSets, TLC

\* Largest number of changed files the source host reports for a pull request.
MaxFiles == 3

None == <<>>

Some(x) == <<x>>

(***************************************************************************)
(* Signature verification (verify_signature, identical in both files).     *)
(***************************************************************************)

RECURSIVE Xor(_, _)
\* Bitwise exclusive or of two naturals (the key pads of HMAC).
Xor(a, b) ==
    IF a = 0 THEN b
    ELSE IF b = 0 THEN a
    ELSE ((a + b) % 2) + 2 * Xor(a \div 2, b \div 2)

RECURSIVE Sha256From(_, _)
\* hashlib.sha256 abstracted to a 16-bit polynomial digest of the bytes: the
\* claims checked here never rest on collision resistance, only on the
\* digest being a function of key and message.
Sha256From(h, bytes) ==
    IF bytes = <<>> THEN h
    ELSE Sha256From((h * 33 + Head(bytes) + 1) % 65536, Tail(bytes))

sha256(bytes) == Sha256From(5381, bytes)

\* The digest as bytes, most significant first.
DigestBytes(d) == << d \div 256, d % 256 >>

\* The key as one block (two bytes here), zero padded; a longer key is hashed.
KeyBlock(key) ==
    LET k == IF Len(key) > 2 THEN DigestBytes(sha256(key)) ELSE key
    IN  [i \in 1..2 |-> IF i <= Len(k) THEN k[i] ELSE 0]

\* hmac.new(key, msg, sha256): H((K xor opad) || H((K xor ipad) || msg)).
hmac_new(key, msg) ==
    LET K     == KeyBlock(key)
        ipad  == [i \in 1..2 |-> Xor(K[i], 54)]
        opad  == [i \in 1..2 |-> Xor(K[i], 92)]
        inner == sha256(ipad \o msg)
    IN  sha256(opad \o DigestBytes(inner))

HexDigits ==
    << "0", "1", "2", "3", "4", "5", "6", "7",
       "8", "9", "a", "b", "c", "d", "e", "f" >>

\* HMAC.hexdigest(): lowercase hexadecimal text of the digest.
hexdigest(d) ==
    << HexDigits[((d \div 4096) % 16) + 1], HexDigits[((d \div 256) % 16) + 1],
       HexDigits[((d \div 16) % 16) + 1],   HexDigits[(d % 16) + 1] >>

Sha256Prefix == << "s", "h", "a", "2", "5", "6", "=" >>

\* The characters outside ASCII that the model's header values use (a header
\* byte 0xE9 reaches the handler as the character U+00E9).
NonAsciiChars == { "U+00E9" }

IsAscii(s) == \A i \in 1..Len(s) : s[i] \notin NonAsciiChars

\* os.environ.get(name, default): the environment maps a name to an option.
EnvironGet(environ, name, default) ==
    IF environ[name] = None THEN default ELSE environ[name][1]

\* 'secret'.encode('utf-8'): the model's secrets are ASCII letters, encoded
\* as one byte each.
CharCodes == [c \in {"k", "z"} |-> IF c = "k" THEN 107 ELSE 122]

encode_utf8(s) == [i \in 1..Len(s) |-> CharCodes[s[i]]]

\* hmac.compare_digest on two str values: a TypeError when either holds a
\* character outside ASCII, else whether they are equal.
compare_digest_prefix(a, b) ==
    IF ~IsAscii(a) \/ ~IsAscii(b)
    THEN [exc |-> "TypeError", val |-> FALSE]
    ELSE [exc |-> "none", val |-> Len(a) <= Len(b) /\ SubSeq(b, 1, Len(a)) = a]

compare_digest(a, b) ==
    IF ~IsAscii(a) \/ ~IsAscii(b)
    THEN [exc |-> "TypeError", val |-> FALSE]
    ELSE [exc |-> "none", val |-> a = b]

verify_signature(environ, payload_body, signature_header) ==
    IF signature_header = None \/ signature_header[1] = <<>>
    THEN [exc |-> "none", val |-> FALSE]
    ELSE LET key      == encode_utf8(EnvironGet(environ, "WEBHOOK_SECRET", <<>>))
             expected == Sha256Prefix \o hexdigest(hmac_new(key, payload_body))
         IN  compare_digest(expected, signature_header[1])

(***************************************************************************)
(* The request body and its parsed form (request.json / get_json()).       *)
(*                                                                         *)
(* A body is three bytes: the kind of document (0 not JSON, 1 a JSON       *)
(* array, 2 a JSON object), the object's "action" (0 absent, 1 opened,     *)
(* 2 synchronize, 3 closed) and the one field the object lacks (0 none,    *)
(* 1 pull_request, 2 repository, 3 installation, 4 installation.id,        *)
(* 5 pull_request.head.sha).                                               *)
(***************************************************************************)

ActionNames == << "opened", "synchronize", "closed" >>

AllPaths ==
    { "pull_request", "pull_request.number", "pull_request.head",
      "pull_request.head.sha", "repository", "repository.full_name",
      "installation", "installation.id" }

\* The paths a document lacking field m does not have.
Lacking(m) ==
    CASE m = 1 -> { "pull_request", "pull_request.number", "pull_request.head",
                    "pull_request.head.sha" }
      [] m = 2 -> { "repository", "repository.full_name" }
      [] m = 3 -> { "installation", "installation.id" }
      [] m = 4 -> { "installation.id" }
      [] m = 5 -> { "pull_request.head.sha" }
      [] OTHER -> {}

\* The framework's JSON parse of the body: a BadRequest for a body that is
\* not JSON, else the value, a dict carrying its action (None when absent)
\* and the paths it has, or a list.
get_json(data) ==
    IF data[1] = 0
    THEN [exc |-> "BadRequest", type |-> "none", action |-> None, paths |-> {}]
    ELSE IF data[1] = 1
    THEN [exc |-> "none", type |-> "list", action |-> None, paths |-> {}]
    ELSE [exc |-> "none", type |-> "dict",
          action |-> IF data[2] = 0 THEN None ELSE Some(ActionNames[data[2]]),
          paths |-> AllPaths \ Lacking(data[3])]

\* str(KeyError(k))
KeyErrorText(k) == "'" \o k \o "'"

\* Lines 146-150 (server.py) / 163-167 (async_server.py): the first key whose
\* lookup raises KeyError, in the order of the lookups, or None.
ExtractFault(payload) ==
    IF "pull_request" \notin payload.paths THEN Some("pull_request")
    ELSE IF "repository" \notin payload.paths THEN Some("repository")
    ELSE IF "installation" \notin payload.paths THEN Some("installation")
    ELSE IF "installation.id" \notin payload.paths THEN Some("id")
    ELSE IF "pull_request.number" \notin payload.paths THEN Some("number")
    ELSE IF "repository.full_name" \notin payload.paths THEN Some("full_name")
    ELSE None

\* pull_request['head']['sha']: the key whose lookup raises, or None.
HeadShaFault(payload) ==
    IF "pull_request.head" \notin payload.paths THEN Some("head")
    ELSE IF "pull_request.head.sha" \notin payload.paths THEN Some("sha")
    ELSE None

(***************************************************************************)
(* File selection.                                                         *)
(***************************************************************************)

EndsWith(s, suffix) ==
    /\ Len(suffix) <= Len(s)
    /\ SubSeq(s, Len(s) - Len(suffix) + 1, Len(s)) = suffix

\* reviewable_extensions of server.py
ServerExtensions ==
    { <<".", "p", "y">>, <<".", "j", "s">>, <<".", "t", "s">>,
      <<".", "j", "a", "v", "a">>, <<".", "c", "p", "p">>, <<".", "c">>,
      <<".", "g", "o">>, <<".", "r", "s">>, <<".", "p", "h", "p">>,
      <<".", "r", "b">> }

\* reviewable_extensions of async_server.py
AsyncExtensions ==
    ServerExtensions \cup { <<".", "j", "s", "x">>, <<".", "t", "s", "x">> }

reviewable_extensions(module) ==
    IF module = "server" THEN ServerExtensions ELSE AsyncExtensions

should_review_file(module, filename) ==
    \E ext \in reviewable_extensions(module) : EndsWith(filename, ext)

(***************************************************************************)
(* The review client.                                                      *)
(***************************************************************************)

IssuesMarker == "ISSUES FOUND:"

\* What the LLM endpoint can do with one request.
LlmOutcomes == { "issues", "good", "transport", "timeout", "empty" }

Str(text) == [type |-> "str", text |-> text]

\* Calling an async def without awaiting it yields a coroutine object.
Coroutine == [type |-> "coroutine", text |-> <<>>]

\* review_with_gemini of async_server.py once the HTTP exchange has ended
\* with `outcome`: the text of the first candidate, or an error text.
GeminiResult(outcome) ==
    CASE outcome = "issues" -> Str(<< IssuesMarker, " missing docstring" >>)
      [] outcome = "good" -> Str(<< "CODE LOOKS GOOD:", " Nice simple code!" >>)
      [] outcome = "empty" -> Str(<< "Error: No response from Gemini" >>)
      [] outcome = "transport" ->
            Str(<< "Error calling Gemini API: ", "Cannot connect to host" >>)
      [] OTHER -> Str(<< "Error calling Gemini API: " >>)

\* The api key check that opens review_with_gemini.
MissingKeyResult == Str(<< "Error: Gemini API key not configured" >>)

HasApiKey(environ) ==
    /\ environ["GEMINI_API_KEY"] # None
    /\ environ["GEMINI_API_KEY"][1] # <<>>

\* review.startswith('ISSUES FOUND:'): an AttributeError on a value that is
\* no str.
startswith(review, marker) ==
    IF review.type # "str"
    THEN [exc |-> "'coroutine' object has no attribute 'startswith'", val |-> FALSE]
    ELSE [exc |-> "none", val |-> Len(review.text) > 0 /\ review.text[1] = marker]

\* The heading of async_server.py line 195, which names no file.
ErrorSection_unnamed(filename, message) ==
    [heading |-> "error", filename |-> << "E", "r", "r", "o", "r" >>,
     body |-> << "Review task failed: ", message >>]

IssueSection(filename, review) ==
    [heading |-> "issues", filename |-> filename, body |-> review.text]

ErrorSection(filename, message) ==
    [heading |-> "error", filename |-> filename,
     body |-> << "Error reviewing file: ", message >>]

\* Lines 173-178 (server.py) / 126-133 (async_server.py): the section the
\* review of a fetched file yields, None for no section.
ClassifyReview(filename, review) ==
    LET sw == startswith(review, IssuesMarker)
    IN  IF sw.exc # "none" THEN Some(ErrorSection(filename, sw.exc))
        ELSE IF sw.val THEN Some(IssueSection(filename, review))
        ELSE None

(***************************************************************************)
(* The inputs of one invocation.                                           *)
(***************************************************************************)

Modules == { "server", "async_server" }

\* os.environ: each variable unset (None) or set.
Environs ==
    [ { "WEBHOOK_SECRET", "GEMINI_API_KEY" } -> { None, Some(<< "k" >>) } ]

Bodies ==
    { << 0, 0, 0 >>, << 1, 0, 0 >>, << 2, 0, 0 >>, << 2, 3, 0 >>, << 2, 2, 0 >> }
    \cup { << 2, 1, m >> : m \in 0..5 }

\* The signature a sender holding `secret` computes for `data`.
SignatureFor(secret, data) ==
    Sha256Prefix \o hexdigest(hmac_new(encode_utf8(secret), data))

\* X-Hub-Signature-256 as sent: absent, empty, signed with the configured
\* secret, with the empty key or with another secret, the bare digest, a
\* signature followed by one more character, and one with a character
\* outside ASCII.
SignatureHeaders(environ, data) ==
    LET good == SignatureFor(EnvironGet(environ, "WEBHOOK_SECRET", <<>>), data)
    IN  { None, Some(<<>>), Some(good), Some(SignatureFor(<<>>, data)),
          Some(SignatureFor(<< "z" >>, data)),
          Some(SubSeq(good, Len(Sha256Prefix) + 1, Len(good))),
          Some(good \o << "0" >>),
          Some(Sha256Prefix \o << "U+00E9" >>) }

\* X-GitHub-Event as sent ("None" for an absent header).
EventTypes == { "pull_request", "issues", "None" }

FileNames ==
    { << "a", ".", "p", "y" >>, << "b", ".", "t", "s", "x" >>,
      << "c", ".", "m", "d" >>, << "d", ".", "j", "s" >> }

\* What pr.get_files() can report: up to MaxFiles distinct files in any order.
FileListings ==
    { l \in UNION { [1..n -> FileNames] : n \in 0..MaxFiles } :
        \A i, j \in 1..Len(l) : i # j => l[i] # l[j] }

(***************************************************************************)
(* State.                                                                  *)
(***************************************************************************)

VARIABLES
    first,       \* what async_server.py did with the request, None until
                 \* the request is delivered to server.py as well
    module,      \* which file's webhook() serves the request
    environ,     \* os.environ
    request,     \* [data, signature, event]
    pc,          \* the handler's position
    verified,    \* what verify_signature returned, None before the call
    payload,     \* the parsed body, None before the parse
    files,       \* the changed files as the source host reported them
    idx,         \* server.py: the file the loop of line 161 is at
    tasks,       \* async_server.py: per reviewable file, the state of its task
    results,     \* async_server.py: per task, what process_file_review returned
    finished,    \* async_server.py: the tasks in the order they finished
    outcomes,    \* per task (async) or file (server), the fetch and LLM outcome
    issues,      \* the sections of the comment
    calls,       \* the calls made to the source host and to review_with_gemini
    comments,    \* the comments posted to the pull request
    raised,      \* the exceptions raised so far, caught or not
    response     \* the HTTP response, None while the handler runs

vars ==
    << first, module, environ, request, pc, verified, payload, files, idx, tasks,
       results, finished, outcomes, issues, calls, comments, raised, response >>

Call(op, arg) == [op |-> op, arg |-> arg]

NoArg == <<>>

\* An exception: where it was raised, for which file, and its str().
Exc(at, arg, text) == [at |-> at, arg |-> arg, text |-> text]

\* jsonify({key: text}), status
Respond(status, key, text) ==
    Some([status |-> status, key |-> key, text |-> text, by |-> "handler"])

\* A fault that leaves webhook(): the framework answers for the handler.
Escaped(status, fault) ==
    Some([status |-> status, key |-> "none", text |-> fault, by |-> "framework"])

NoOutcome == [fetch |-> "none", llm |-> "none"]

\* Whether the first handler made the call, and whether it raised there.
FirstCalled(op, arg) ==
    \E n \in 1..Len(first[1].calls) : first[1].calls[n] = Call(op, arg)

FirstRaised(at, arg) ==
    \E n \in 1..Len(first[1].raised) :
        first[1].raised[n].at = at /\ first[1].raised[n].arg = arg

\* The source host is the same for both handlers: a call it answered for the
\* first handler it answers the same way (TRUE: it returns, FALSE: it
\* raises) for the second; any other call may go either way.
HostReturns(op, arg) ==
    IF first = None \/ ~FirstCalled(op, arg) THEN BOOLEAN
    ELSE { ~FirstRaised(op, arg) }

\* The changed files the source host can list.
HostListings ==
    IF first = None \/ ~FirstCalled("get_files", NoArg)
                    \/ FirstRaised("get_files", NoArg)
    THEN FileListings
    ELSE { first[1].files }

Init ==
    /\ first = None
    /\ module \in Modules
    /\ environ \in Environs
    /\ \E data \in Bodies, event \in EventTypes :
         \E signature \in SignatureHeaders(environ, data) :
            request = [data |-> data, signature |-> signature, event |-> event]
    /\ pc = "verify"
    /\ verified = None
    /\ payload = None
    /\ files = <<>>
    /\ idx = 1
    /\ tasks = <<>>
    /\ results = <<>>
    /\ finished = <<>>
    /\ outcomes = <<>>
    /\ issues = <<>>
    /\ calls = <<>>
    /\ comments = <<>>
    /\ raised = <<>>
    /\ response = None

(***************************************************************************)
(* The handler, common part.                                               *)
(***************************************************************************)

\* `if not verify_signature(...)` as reached with a returned value.
SignatureRejected_never(r) == FALSE

SignatureRejected(r) == ~r.val

\* server.py 125-128, async_server.py 139-145
Verify ==
    /\ pc = "verify"
    /\ LET r == verify_signature(environ, request.data, request.signature)
       IN  /\ verified' = Some(r)
           /\ IF r.exc # "none"
              THEN /\ raised' = Append(raised, Exc("compare_digest", NoArg, r.exc))
                   /\ response' = Escaped(500, r.exc)
                   /\ pc' = "done"
              ELSE IF SignatureRejected(r)
              THEN /\ raised' = raised
                   /\ response' = Respond(401, "error", "Invalid signature")
                   /\ pc' = "done"
              ELSE /\ raised' = raised
                   /\ response' = response
                   /\ pc' = "filter"
    /\ UNCHANGED << first, module, environ, request, payload, files, idx, tasks,
                    results, finished, outcomes, issues, calls, comments >>

\* server.py 131-142, async_server.py 148-159
Filter ==
    /\ pc = "filter"
    /\ LET p == get_json(request.data)
       IN  IF p.exc # "none"
           THEN /\ payload' = payload
                /\ raised' = Append(raised, Exc("get_json", NoArg, p.exc))
                /\ response' = Escaped(400, p.exc)
                /\ pc' = "done"
           ELSE /\ payload' = Some(p)
                /\ IF request.event # "pull_request"
                   THEN /\ raised' = raised
                        /\ response' = Respond(200, "message", "Event ignored")
                        /\ pc' = "done"
                   ELSE IF p.type # "dict"
                   THEN /\ raised' = Append(raised,
                                        Exc("payload.get", NoArg, "AttributeError"))
                        /\ response' = Escaped(500, "AttributeError")
                        /\ pc' = "done"
                   ELSE IF p.action \notin { Some("opened"), Some("synchronize") }
                   THEN /\ raised' = raised
                        /\ response' = Respond(200, "message", "Action ignored")
                        /\ pc' = "done"
                   ELSE /\ raised' = raised
                        /\ response' = response
                        /\ pc' = "extract"
    /\ UNCHANGED << first, module, environ, request, verified, files, idx, tasks,
                    results, finished, outcomes, issues, calls, comments >>

\* server.py 146-150, async_server.py 163-167
Extract ==
    /\ pc = "extract"
    /\ LET fault == ExtractFault(payload[1])
       IN  IF fault # None
           THEN /\ raised' = Append(raised,
                                Exc("extract", NoArg, KeyErrorText(fault[1])))
                /\ response' = Respond(500, "error", KeyErrorText(fault[1]))
                /\ pc' = "done"
           ELSE /\ raised' = raised
                /\ response' = response
                /\ pc' = "client"
    /\ UNCHANGED << first, module, environ, request, verified, payload, files, idx,
                    tasks, results, finished, outcomes, issues, calls, comments >>

\* server.py 153, async_server.py 170: get_github_client(installation_id)
GetClient ==
    /\ pc = "client"
    /\ calls' = Append(calls, Call("get_github_client", NoArg))
    /\ \E ok \in HostReturns("get_github_client", NoArg) :
         IF ok
         THEN /\ raised' = raised
              /\ response' = response
              /\ pc' = "pull"
         ELSE /\ raised' = Append(raised,
                              Exc("get_github_client", NoArg, "authentication failed"))
              /\ response' = Respond(500, "error", "authentication failed")
              /\ pc' = "done"
    /\ UNCHANGED << first, module, environ, request, verified, payload, files, idx,
                    tasks, results, finished, outcomes, issues, comments >>

\* server.py 154-155, async_server.py 171-172: get_repo, then get_pull
GetPull ==
    /\ pc = "pull"
    /\ \E failing \in { "none", "get_repo", "get_pull" } :
         /\ (failing # "get_repo") \in HostReturns("get_repo", NoArg)
         /\ \/ failing = "get_repo"
            \/ (failing # "get_pull") \in HostReturns("get_pull", NoArg)
         /\ calls' =
              IF failing = "get_repo"
              THEN Append(calls, Call("get_repo", NoArg))
              ELSE calls \o << Call("get_repo", NoArg), Call("get_pull", NoArg) >>
         /\ IF failing = "none"
            THEN /\ raised' = raised
                 /\ response' = response
                 /\ pc' = "files"
            ELSE /\ raised' = Append(raised, Exc(failing, NoArg, failing \o " failed"))
                 /\ response' = Respond(500, "error", failing \o " failed")
                 /\ pc' = "done"
    /\ UNCHANGED << first, module, environ, request, verified, payload, files, idx,
                    tasks, results, finished, outcomes, issues, comments >>

\* server.py 158-159, async_server.py 175: pr.get_files()
GetFiles ==
    /\ pc = "files"
    /\ calls' = Append(calls, Call("get_files", NoArg))
    /\ \/ /\ FALSE \in HostReturns("get_files", NoArg)
          /\ raised' = Append(raised, Exc("get_files", NoArg, "get_files failed"))
          /\ response' = Respond(500, "error", "get_files failed")
          /\ pc' = "done"
          /\ UNCHANGED << files, outcomes >>
       \/ \E listing \in HostListings :
            /\ TRUE \in HostReturns("get_files", NoArg)
            /\ files' = listing
            /\ raised' = raised
            /\ outcomes' = [i \in 1..Len(listing) |-> NoOutcome]
            /\ response' = response
            /\ pc' = IF module = "async_server" THEN "select"
                     ELSE IF listing = <<>> THEN "post" ELSE "loop"
    /\ UNCHANGED << first, module, environ, request, verified, payload, idx, tasks,
                    results, finished, issues, comments >>

(***************************************************************************)
(* server.py: the loop over the changed files.                             *)
(***************************************************************************)

\* server.py 161-178: one iteration of `for file in files`.
SyncReviewFile ==
    /\ pc = "loop"
    /\ module = "server"
    /\ idx <= Len(files)
    /\ LET filename == files[idx]
           sha      == HeadShaFault(payload[1])
       IN  IF ~should_review_file(module, filename)
           THEN UNCHANGED << issues, calls, outcomes, raised >>
           ELSE IF sha # None
           THEN /\ issues' = Append(issues, ErrorSection(filename, KeyErrorText(sha[1])))
                /\ raised' = Append(raised,
                                Exc("head.sha", filename, KeyErrorText(sha[1])))
                /\ UNCHANGED << calls, outcomes >>
           ELSE \E fetched \in HostReturns("get_contents", filename) :
                  IF ~fetched
                  THEN /\ calls' = Append(calls, Call("get_contents", filename))
                       /\ outcomes' = [outcomes EXCEPT ![idx].fetch = "raise"]
                       /\ raised' = Append(raised,
                                       Exc("get_contents", filename, "get_contents failed"))
                       /\ issues' = Append(issues,
                                       ErrorSection(filename, "get_contents failed"))
                  ELSE LET sw == startswith(Coroutine, IssuesMarker)
                           section == ClassifyReview(filename, Coroutine)
                       IN  /\ calls' = calls \o << Call("get_contents", filename),
                                                   Call("review_with_gemini", filename) >>
                           /\ outcomes' = [outcomes EXCEPT ![idx] =
                                             [fetch |-> "ok", llm |-> "not awaited"]]
                           /\ raised' = IF sw.exc = "none" THEN raised
                                        ELSE Append(raised,
                                                Exc("startswith", filename, sw.exc))
                           /\ issues' = issues \o section
    /\ idx' = idx + 1
    /\ pc' = IF idx = Len(files) THEN "post" ELSE "loop"
    /\ UNCHANGED << first, module, environ, request, verified, payload, files, tasks,
                    results, finished, comments, response >>

(***************************************************************************)
(* async_server.py: selection, the per-file tasks and their gathering.     *)
(***************************************************************************)

\* The selection without the filter: every changed file gets a task.
Reviewable_all(mod, listing) == listing

Reviewable(mod, listing) ==
    SelectSeq(listing, LAMBDA f : should_review_file(mod, f))

FileIndex(filename) == CHOOSE i \in 1..Len(files) : files[i] = filename

\* async_server.py 176-188, to the await of asyncio.gather
AsyncSelect ==
    /\ pc = "select"
    /\ LET reviewable_files == Reviewable(module, files)
           sha == HeadShaFault(payload[1])
       IN  IF reviewable_files = <<>>
           THEN /\ response' = Respond(200, "message", "No reviewable files")
                /\ pc' = "done"
                /\ UNCHANGED << tasks, results, raised >>
           ELSE IF sha # None
           THEN /\ raised' = Append(raised,
                                Exc("head.sha", NoArg, KeyErrorText(sha[1])))
                /\ response' = Respond(500, "error", KeyErrorText(sha[1]))
                /\ pc' = "done"
                /\ UNCHANGED << tasks, results >>
           ELSE /\ raised' = raised
                /\ tasks' = [k \in 1..Len(reviewable_files) |->
                               [filename |-> reviewable_files[k], state |-> "created"]]
                /\ results' = [k \in 1..Len(reviewable_files) |-> None]
                /\ response' = response
                /\ pc' = "gather"
    /\ UNCHANGED << first, module, environ, request, verified, payload, files, idx,
                    finished, outcomes, issues, calls, comments >>

\* process_file_review with a fetch that is tried again once after it raised.
TaskStart_retry(k) ==
    /\ pc = "gather"
    /\ k \in 1..Len(tasks)
    /\ tasks[k].state = "created"
    /\ \A j \in 1..(k - 1) : tasks[j].state # "created"
    /\ LET filename == tasks[k].filename
           i == FileIndex(filename)
       IN  \E fetched \in HostReturns("get_contents", filename) :
             IF ~fetched
             THEN /\ calls' = calls \o << Call("get_contents", filename),
                                          Call("get_contents", filename) >>
                  /\ outcomes' = [outcomes EXCEPT ![i].fetch = "raise"]
                  /\ raised' = Append(raised,
                                  Exc("get_contents", filename, "get_contents failed"))
                  /\ results' = [results EXCEPT ![k] =
                                   Some(ErrorSection(filename, "get_contents failed"))]
                  /\ tasks' = [tasks EXCEPT ![k].state = "done"]
                  /\ finished' = Append(finished, k)
             ELSE /\ calls' = calls \o << Call("get_contents", filename),
                                          Call("review_with_gemini", filename) >>
                  /\ raised' = raised
                  /\ IF HasApiKey(environ)
                     THEN /\ outcomes' = [outcomes EXCEPT ![i].fetch = "ok"]
                          /\ tasks' = [tasks EXCEPT ![k].state = "in flight"]
                          /\ UNCHANGED << results, finished >>
                     ELSE /\ outcomes' = [outcomes EXCEPT ![i] =
                                            [fetch |-> "ok", llm |-> "no key"]]
                          /\ results' = [results EXCEPT ![k] =
                                           ClassifyReview(filename, MissingKeyResult)]
                          /\ tasks' = [tasks EXCEPT ![k].state = "done"]
                          /\ finished' = Append(finished, k)
    /\ UNCHANGED << first, module, environ, request, pc, verified, payload, files, idx,
                    issues, comments, response >>

\* process_file_review, lines 116-124 to its first suspension: the event loop
\* starts the tasks in the order gather received them, and get_contents
\* blocks, so a task runs from its start to the HTTP exchange (or to its
\* end) before the next task starts.
TaskStart(k) ==
    /\ pc = "gather"
    /\ k \in 1..Len(tasks)
    /\ tasks[k].state = "created"
    /\ \A j \in 1..(k - 1) : tasks[j].state # "created"
    /\ LET filename == tasks[k].filename
           i == FileIndex(filename)
       IN  \E fetched \in HostReturns("get_contents", filename) :
             IF ~fetched
             THEN /\ calls' = Append(calls, Call("get_contents", filename))
                  /\ outcomes' = [outcomes EXCEPT ![i].fetch = "raise"]
                  /\ raised' = Append(raised,
                                  Exc("get_contents", filename, "get_contents failed"))
                  /\ results' = [results EXCEPT ![k] =
                                   Some(ErrorSection(filename, "get_contents failed"))]
                  /\ tasks' = [tasks EXCEPT ![k].state = "done"]
                  /\ finished' = Append(finished, k)
             ELSE /\ calls' = calls \o << Call("get_contents", filename),
                                          Call("review_with_gemini", filename) >>
                  /\ raised' = raised
                  /\ IF HasApiKey(environ)
                     THEN /\ outcomes' = [outcomes EXCEPT ![i].fetch = "ok"]
                          /\ tasks' = [tasks EXCEPT ![k].state = "in flight"]
                          /\ UNCHANGED << results, finished >>
                     ELSE /\ outcomes' = [outcomes EXCEPT ![i] =
                                            [fetch |-> "ok", llm |-> "no key"]]
                          /\ results' = [results EXCEPT ![k] =
                                           ClassifyReview(filename, MissingKeyResult)]
                          /\ tasks' = [tasks EXCEPT ![k].state = "done"]
                          /\ finished' = Append(finished, k)
    /\ UNCHANGED << first, module, environ, request, pc, verified, payload, files, idx,
                    issues, comments, response >>

\* review_with_gemini 89-107 and process_file_review 126-133: the HTTP
\* exchange of task k ends, in any order among the tasks in flight.
TaskComplete(k) ==
    /\ pc = "gather"
    /\ k \in 1..Len(tasks)
    /\ tasks[k].state = "in flight"
    /\ \A j \in 1..Len(tasks) : tasks[j].state # "created"
    /\ LET filename == tasks[k].filename
           i == FileIndex(filename)
       IN  \E outcome \in LlmOutcomes :
             /\ outcomes' = [outcomes EXCEPT ![i].llm = outcome]
             /\ results' = [results EXCEPT ![k] =
                              ClassifyReview(filename, GeminiResult(outcome))]
    /\ tasks' = [tasks EXCEPT ![k].state = "done"]
    /\ finished' = Append(finished, k)
    /\ UNCHANGED << first, module, environ, request, pc, verified, payload, files, idx,
                    issues, calls, comments, raised, response >>

\* The results in the order the tasks finished (asyncio.as_completed).
gather_as_completed(task_results, finish_order) ==
    [k \in 1..Len(task_results) |-> task_results[finish_order[k]]]

\* asyncio.gather(*review_tasks): the results in the order of the tasks,
\* whatever the order they finished in.
gather(task_results, finish_order) ==
    [k \in 1..Len(task_results) |-> task_results[k]]

RECURSIVE CollectIssues(_)
\* async_server.py 191-197. process_file_review catches every Exception, so
\* no result is an exception and line 195 is never reached.
CollectIssues(review_results) ==
    IF review_results = <<>> THEN <<>>
    ELSE Head(review_results) \o CollectIssues(Tail(review_results))

\* Returning as soon as one task is done (asyncio.wait, FIRST_COMPLETED).
gather_returns_first_completed(task_states) ==
    \E k \in 1..Len(task_states) : task_states[k].state = "done"

\* `await asyncio.gather(...)` resumes the handler once every task is done.
gather_returns(task_states) ==
    \A k \in 1..Len(task_states) : task_states[k].state = "done"

\* async_server.py 188-197: gather returns once every task is done
AsyncAggregate ==
    /\ pc = "gather"
    /\ gather_returns(tasks)
    /\ issues' = CollectIssues(gather(results, finished))
    /\ pc' = "post"
    /\ UNCHANGED << first, module, environ, request, verified, payload, files, idx,
                    tasks, results, finished, outcomes, calls, comments, raised,
                    response >>

(***************************************************************************)
(* Posting the comment and answering.                                      *)
(***************************************************************************)

PositiveMessage(mod) ==
    IF mod = "server"
    THEN "Code looks good! No major issues found."
    ELSE "Code looks good! No major issues found in the reviewed files."

\* server.py 181-199, async_server.py 200-218: the body of the comment
CommentBody(mod, sections) ==
    IF sections # <<>>
    THEN [kind |-> "issues", sections |-> sections, text |-> "AI Code Review"]
    ELSE [kind |-> "positive", sections |-> <<>>, text |-> PositiveMessage(mod)]

\* The post placed before a step of the handler that can still fail: the
\* comment is on the pull request and the request is answered 500.
PostComment_then_fails ==
    /\ pc = "post"
    /\ calls' = Append(calls, Call("create_issue_comment", NoArg))
    /\ comments' = Append(comments, CommentBody(module, issues))
    /\ raised' = Append(raised, Exc("create_issue_comment", NoArg,
                                    "create_issue_comment failed"))
    /\ response' = Respond(500, "error", "create_issue_comment failed")
    /\ pc' = "done"
    /\ UNCHANGED << first, module, environ, request, verified, payload, files, idx,
                    tasks, results, finished, outcomes, issues >>

\* server.py 181-206, async_server.py 200-225
PostComment ==
    /\ pc = "post"
    /\ calls' = Append(calls, Call("create_issue_comment", NoArg))
    /\ \E ok \in HostReturns("create_issue_comment", NoArg) :
         IF ok
         THEN /\ comments' = Append(comments, CommentBody(module, issues))
              /\ raised' = raised
              /\ response' = Respond(200, "message", "Success")
         ELSE /\ comments' = comments
              /\ raised' = Append(raised, Exc("create_issue_comment", NoArg,
                                              "create_issue_comment failed"))
              /\ response' = Respond(500, "error", "create_issue_comment failed")
    /\ pc' = "done"
    /\ UNCHANGED << first, module, environ, request, verified, payload, files, idx,
                    tasks, results, finished, outcomes, issues >>

Next ==
    \/ Verify
    \/ Filter
    \/ Extract
    \/ GetClient
    \/ GetPull
    \/ GetFiles
    \/ SyncReviewFile
    \/ AsyncSelect
    \/ \E k \in 1..MaxFiles : TaskStart(k)
    \/ \E k \in 1..MaxFiles : TaskComplete(k)
    \/ AsyncAggregate
    \/ PostComment

Spec == Init /\ [][Next]_vars

(***************************************************************************)
(* Properties.                                                             *)
(***************************************************************************)

Done == pc = "done"

\* The request's signature verified: verify_signature returned true.
Verified == verified # None /\ verified[1].exc = "none" /\ verified[1].val

Called(op) == \E n \in 1..Len(calls) : calls[n].op = op

CalledWith(op, arg) == \E n \in 1..Len(calls) : calls[n] = Call(op, arg)

Raised(at) == \E n \in 1..Len(raised) : raised[n].at = at

RaisedFor(at, arg) == \E n \in 1..Len(raised) : raised[n].at = at /\ raised[n].arg = arg

CallCount(op, arg) == Cardinality({ n \in 1..Len(calls) : calls[n] = Call(op, arg) })

\* C1: whenever verify_signature has returned false, the response is 401
\* with an error body, the payload has not been parsed and no call to the
\* source host or to review_with_gemini has been made.
C1_InvalidSignatureShortCircuits ==
    (verified # None /\ verified[1].exc = "none" /\ ~verified[1].val)
        => /\ response = Respond(401, "error", "Invalid signature")
           /\ payload = None
           /\ calls = <<>>

\* A request with a present but wrong signature has been answered.
C1_Witness ==
    /\ Done
    /\ verified = Some([exc |-> "none", val |-> FALSE])
    /\ request.signature # None
    /\ request.signature[1] # <<>>
    /\ response # None
    /\ response[1].status = 401

\* The secret the process is configured with, the empty one when unset.
ConfiguredSecret ==
    IF environ["WEBHOOK_SECRET"] = None THEN <<>> ELSE environ["WEBHOOK_SECRET"][1]

\* C2: verify_signature returns true exactly when the header is present and
\* equals "sha256=" followed by the hex HMAC of the body under the configured
\* secret (the empty key when WEBHOOK_SECRET is unset); a missing or empty
\* header is never accepted.
C2_SignatureIffHmac ==
    verified # None =>
        /\ Verified <=>
             /\ request.signature # None
             /\ request.signature[1] = SignatureFor(ConfiguredSecret, request.data)
        /\ (request.signature \in { None, Some(<<>>) })
             => verified[1] = [exc |-> "none", val |-> FALSE]

\* With no secret configured, a request signed with the empty key is accepted.
C2_Witness ==
    /\ Verified
    /\ environ["WEBHOOK_SECRET"] = None
    /\ request.signature = Some(SignatureFor(<<>>, request.data))

\* The allow-list of the specification.
AllowList ==
    { <<".", "p", "y">>, <<".", "j", "s">>, <<".", "t", "s">>,
      <<".", "j", "a", "v", "a">>, <<".", "c", "p", "p">>, <<".", "c">>,
      <<".", "g", "o">>, <<".", "r", "s">>, <<".", "p", "h", "p">>,
      <<".", "r", "b">>, <<".", "j", "s", "x">>, <<".", "t", "s", "x">> }

\* C3: for every changed file the handler is given, should_review_file is
\* true exactly when the filename ends with a suffix of the allow-list, in
\* server.py as in async_server.py.
C3_AllowListDecides ==
    \A i \in 1..Len(files) :
        should_review_file(module, files[i])
            <=> \E ext \in AllowList : EndsWith(files[i], ext)

\* The action the request body carries, None when it carries none.
RequestAction == get_json(request.data).action

\* C4: a verified request (here: one whose body is JSON) that is not a
\* pull_request event is answered 200 "Event ignored", a verified
\* pull_request event whose action is neither opened nor synchronize (or is
\* absent) is answered 200 "Action ignored", and in both cases no source-host
\* or LLM call is made.
C4_IgnoredEvents ==
    (Done /\ Verified /\ payload # None) =>
        /\ request.event # "pull_request"
             => /\ response = Respond(200, "message", "Event ignored")
                /\ calls = <<>>
        /\ (/\ request.event = "pull_request"
            /\ RequestAction \notin { Some("opened"), Some("synchronize") })
             => /\ response = Respond(200, "message", "Action ignored")
                /\ calls = <<>>

\* The handler went on to review: a verified pull_request event, opened or
\* synchronize, whose changed files were listed.
Listed ==
    /\ Verified
    /\ request.event = "pull_request"
    /\ RequestAction \in { Some("opened"), Some("synchronize") }
    /\ Called("get_files")
    /\ ~Raised("get_files")

Eligible(i) == should_review_file(module, files[i])

PostRaised == Raised("create_issue_comment")

\* C5: when the files were listed, at least one is eligible, every eligible
\* file was fetched and no review begins with the issues marker, and posting
\* does not raise, exactly one comment is posted, the positive one, and the
\* response is 200 "Success".
C5_PositiveComment ==
    (/\ Done
     /\ Listed
     /\ \E i \in 1..Len(files) : Eligible(i)
     /\ \A i \in 1..Len(files) :
          Eligible(i) => outcomes[i].fetch = "ok" /\ outcomes[i].llm # "issues"
     /\ ~PostRaised)
        => /\ comments = << CommentBody(module, <<>>) >>
           /\ response = Respond(200, "message", "Success")

\* The verdict the code gives file i: none for a file that is not eligible,
\* Error for a fault while fetching or classifying, IssuesFound for a review
\* text opening with the marker, NoIssues for any other text.
Verdict(i) ==
    IF ~Eligible(i) THEN "none"
    ELSE IF \/ RaisedFor("head.sha", files[i])
            \/ RaisedFor("get_contents", files[i])
            \/ RaisedFor("startswith", files[i]) THEN "Error"
    ELSE IF outcomes[i].llm = "issues" THEN "IssuesFound"
    ELSE "NoIssues"

SectionsOf(i, sections) ==
    { n \in 1..Len(sections) : sections[n].filename = files[i] }

\* C6: the posted comment has exactly one section for each file whose
\* verdict is IssuesFound or Error, headed accordingly, none for any other
\* file, and its sections follow the order in which the source host listed
\* the files, whatever the order the tasks finished in.
C6_SectionsInHostOrder ==
    comments # <<>> =>
        LET sections == comments[1].sections
        IN  /\ \A i \in 1..Len(files) :
                 /\ Cardinality(SectionsOf(i, sections)) =
                      IF Verdict(i) \in { "IssuesFound", "Error" } THEN 1 ELSE 0
                 /\ \A n \in SectionsOf(i, sections) :
                      sections[n].heading =
                        IF Verdict(i) = "IssuesFound" THEN "issues" ELSE "error"
            /\ \A n \in 1..Len(sections) :
                 \E i \in 1..Len(files) : sections[n].filename = files[i]
            /\ \A i, j \in 1..Len(files) :
                 \A n \in SectionsOf(i, sections), m \in SectionsOf(j, sections) :
                    i < j => n < m

\* A comment of two sections posted by async_server.py after the second
\* task finished before the first.
C6_Witness ==
    /\ module = "async_server"
    /\ comments # <<>>
    /\ Len(comments[1].sections) = 2
    /\ Len(finished) >= 2
    /\ finished[1] > finished[2]

\* C7: when the fetch of an eligible file raised, the handler still fetched
\* every eligible file once and called the review of every fetched one, it
\* attempted the post, the response is 200 "Success" unless the post itself
\* raised, and the posted comment holds an error section naming each file
\* whose fetch raised.
C7_FetchFailureIsPerFile ==
    (Done /\ Listed /\ Raised("get_contents")) =>
        /\ \A j \in 1..Len(files) :
             Eligible(j) =>
                /\ CallCount("get_contents", files[j]) = 1
                /\ outcomes[j].fetch \in { "ok", "raise" }
                /\ outcomes[j].fetch = "ok"
                     => CallCount("review_with_gemini", files[j]) = 1
        /\ Called("create_issue_comment")
        /\ IF PostRaised
           THEN response = Respond(500, "error", "create_issue_comment failed")
           ELSE /\ response = Respond(200, "message", "Success")
                /\ Len(comments) = 1
                /\ \A i \in 1..Len(files) :
                     outcomes[i].fetch = "raise" =>
                        \E n \in 1..Len(comments[1].sections) :
                           /\ comments[1].sections[n].heading = "error"
                           /\ comments[1].sections[n].filename = files[i]

\* The first of two eligible files failed to fetch, the second was reviewed
\* and found to have issues, and the comment was posted.
C7_Witness ==
    /\ Done
    /\ module = "async_server"
    /\ Len(files) = 2
    /\ outcomes[1].fetch = "raise"
    /\ outcomes[2] = [fetch |-> "ok", llm |-> "issues"]
    /\ response = Respond(200, "message", "Success")
    /\ Len(comments) = 1
    /\ Len(comments[1].sections) = 2

ReviewFailures == { "transport", "timeout", "empty", "no key" }

\* C8: when the review call of a file failed (transport error, timeout,
\* empty response, no api key) and a comment was posted, the comment is not
\* the positive one and holds an error section naming that file.
C8_ReviewFailureIsError ==
    (Done /\ Listed /\ comments # <<>>) =>
        \A i \in 1..Len(files) :
            outcomes[i].llm \in ReviewFailures =>
                /\ comments[1].kind = "issues"
                /\ \E n \in 1..Len(comments[1].sections) :
                     /\ comments[1].sections[n].heading = "error"
                     /\ comments[1].sections[n].filename = files[i]

\* C9: when the changed files were listed and none is eligible, the response
\* is 200 "No reviewable files" and no content is fetched, no review is
\* called and no comment is posted (nor is a post attempted and failed).
C9_NoReviewableFiles ==
    (Done /\ Listed /\ ~PostRaised /\ \A i \in 1..Len(files) : ~Eligible(i)) =>
        /\ response = Respond(200, "message", "No reviewable files")
        /\ ~Called("get_contents")
        /\ ~Called("review_with_gemini")
        /\ ~Called("create_issue_comment")
        /\ comments = <<>>

RequestFaults ==
    { "extract", "head.sha", "get_github_client", "get_repo", "get_pull",
      "get_files", "create_issue_comment" }

\* C10: when extracting a payload field (pull_request, repository,
\* installation.id, head.sha), authenticating, listing the files or posting
\* the comment raised, the response is 500 with an error body carrying the
\* message of such a fault, and the call that failed was made once.
C10_RequestFaultIs500 ==
    Done =>
        \A n \in 1..Len(raised) :
            raised[n].at \in RequestFaults =>
                /\ \E m \in 1..Len(raised) :
                     /\ raised[m].at \in RequestFaults
                     /\ response = Respond(500, "error", raised[m].text)
                /\ raised[n].at \notin { "extract", "head.sha" }
                     => CallCount(raised[n].at, NoArg) = 1

\* C11: every invocation with a verified signature and a JSON body ends with
\* a response the handler itself produced, a JSON object with one "message"
\* or "error" string and a status among 200, 401 and 500: no fault leaves
\* the handler.
C11_HandlerAlwaysAnswers ==
    (Done /\ Verified /\ payload # None) =>
        /\ response # None
        /\ response[1].by = "handler"
        /\ response[1].key \in { "message", "error" }
        /\ response[1].status \in { 200, 401, 500 }

ReviewCalls == { "get_contents", "review_with_gemini" }

\* C12: in async_server.py, once create_issue_comment has been called every
\* task is done (none is pending or in flight) and every fetch and review
\* call precedes it in the call order; and once tasks were dispatched a
\* response exists only after the post was attempted.
C12_PostAfterAllTasks ==
    module = "async_server" =>
        /\ Called("create_issue_comment") =>
             /\ tasks # <<>>
             /\ \A k \in 1..Len(tasks) : tasks[k].state = "done"
             /\ Len(finished) = Len(tasks)
             /\ \A n, m \in 1..Len(calls) :
                  (calls[n].op = "create_issue_comment" /\ calls[m].op \in ReviewCalls)
                     => m < n
        /\ (tasks # <<>> /\ response # None) => Called("create_issue_comment")

\* Three tasks, finished in an order other than their own, then the post and
\* the response.
C12_Witness ==
    /\ module = "async_server"
    /\ Len(tasks) = 3
    /\ finished = << 3, 1, 2 >>
    /\ Called("create_issue_comment")
    /\ response = Respond(200, "message", "Success")

TasksOf(i) == { k \in 1..Len(tasks) : tasks[k].filename = files[i] }

\* C13: within one invocation the content of a file is fetched at most once
\* and its review is called at most once, whether the attempt succeeds or
\* fails; and from the start of the aggregation on, every eligible file has
\* exactly one verdict: in async_server.py exactly one task, which finished
\* exactly once, in server.py one visit of the loop, which left at most one
\* section; a file that is not eligible has none.
C13_OneAttemptOneVerdict ==
    /\ \A i \in 1..Len(files) :
         /\ CallCount("get_contents", files[i]) <= 1
         /\ CallCount("review_with_gemini", files[i]) <= 1
    /\ (pc = "post" \/ Called("create_issue_comment")) =>
         \A i \in 1..Len(files) :
            IF module = "async_server"
            THEN /\ Cardinality(TasksOf(i)) = IF Eligible(i) THEN 1 ELSE 0
                 /\ \A k \in TasksOf(i) :
                      /\ tasks[k].state = "done"
                      /\ Cardinality({ n \in 1..Len(finished) : finished[n] = k }) = 1
            ELSE /\ idx = Len(files) + 1
                 /\ Cardinality(SectionsOf(i, issues)) <= 1
                 /\ Eligible(i) <=> Verdict(i) # "none"
                 /\ ~Eligible(i) => SectionsOf(i, issues) = {}

\* Two eligible files, the fetch of one raised and the review of the other
\* failed in transport; each was attempted once and the comment was posted.
C13_Witness ==
    /\ Done
    /\ module = "async_server"
    /\ Len(tasks) = 2
    /\ \E i, j \in 1..Len(files) :
         /\ outcomes[i].fetch = "raise"
         /\ outcomes[j] = [fetch |-> "ok", llm |-> "transport"]
         /\ CallCount("get_contents", files[i]) = 1
         /\ CallCount("review_with_gemini", files[j]) = 1
    /\ comments # <<>>

\* C14: the per-file operations have no ordering dependency between files:
\* whenever the tasks have been dispatched, any task that has not started can
\* be the next to fetch its file, whatever the other tasks have done.
C14_NoOrderingBetweenFiles ==
    (module = "async_server" /\ pc = "gather") =>
        \A k \in 1..Len(tasks) :
            tasks[k].state = "created" => ENABLED TaskStart(k)

\* C15: for every eligible file that was fetched and whose review call did
\* not fail, the posted comment holds one section headed by the filename and
\* carrying the full review text when the text opens with the issues marker,
\* and no section for the file otherwise (IssuesFound and NoIssues, never
\* Error), in server.py as in async_server.py.
C15_VerdictFollowsMarker ==
    comments # <<>> =>
        \A i \in 1..Len(files) :
            (/\ Eligible(i)
             /\ outcomes[i].fetch = "ok"
             /\ outcomes[i].llm \notin ReviewFailures) =>
                LET here == SectionsOf(i, comments[1].sections)
                IN  IF outcomes[i].llm = "issues"
                    THEN /\ Cardinality(here) = 1
                         /\ \A n \in here :
                              comments[1].sections[n] =
                                [heading |-> "issues", filename |-> files[i],
                                 body |-> GeminiResult("issues").text]
                    ELSE here = {}

\* C16: an invocation answered 500 has posted no comment; a comment is on
\* the pull request only in an invocation answered 200 "Success"; and an
\* invocation calls create_issue_comment at most once and posts at most one
\* comment.
C16_NoCommentOn500 ==
    /\ Len(comments) <= 1
    /\ CallCount("create_issue_comment", NoArg) <= 1
    /\ comments # <<>> => response = Respond(200, "message", "Success")
    /\ (response # None /\ response[1].status = 500) => comments = <<>>
    /\ (Called("create_issue_comment") /\ ~PostRaised) => Len(comments) = 1

\* The reviews were made, the post was attempted and raised, and the request
\* was answered 500 with nothing posted.
C16_Witness ==
    /\ Done
    /\ Called("review_with_gemini")
    /\ PostRaised
    /\ response = Respond(500, "error", "create_issue_comment failed")
    /\ comments = <<>>

\* C18: every call of get_contents and of review_with_gemini is for a
\* changed file that should_review_file accepts; a call of review_with_gemini
\* for a file comes after the get_contents call for that same file, and that
\* fetch did not raise; a rejected file has neither been fetched nor reviewed.
C18_OnlyAcceptedFilesReviewed ==
    /\ \A n \in 1..Len(calls) :
         calls[n].op \in { "get_contents", "review_with_gemini" } =>
            /\ \E i \in 1..Len(files) :
                 /\ files[i] = calls[n].arg
                 /\ should_review_file(module, files[i])
                 /\ calls[n].op = "review_with_gemini" => outcomes[i].fetch = "ok"
            /\ calls[n].op = "review_with_gemini" =>
                 /\ \E m \in 1..(n - 1) : calls[m] = Call("get_contents", calls[n].arg)
                 /\ ~RaisedFor("get_contents", calls[n].arg)
    /\ \A i \in 1..Len(files) :
         ~Eligible(i) =>
            /\ outcomes[i] = NoOutcome
            /\ ~CalledWith("get_contents", files[i])
            /\ ~CalledWith("review_with_gemini", files[i])
    /\ \A i \in 1..Len(files) :
         outcomes[i].fetch = "raise" => ~CalledWith("review_with_gemini", files[i])

\* A listing of a rejected file, an accepted file whose fetch raised and an
\* accepted file that was fetched and sent for review, handled to the end.
C18_Witness ==
    /\ Done
    /\ Len(files) = 3
    /\ \E i, j, k \in 1..Len(files) :
         /\ ~Eligible(i)
         /\ Eligible(j) /\ outcomes[j].fetch = "raise"
         /\ CalledWith("get_contents", files[j])
         /\ Eligible(k) /\ outcomes[k].fetch = "ok"
         /\ CalledWith("review_with_gemini", files[k])

(***************************************************************************)
(* The two handlers on one request.                                        *)
(***************************************************************************)

\* The request async_server.py's webhook() has answered is delivered, with
\* the same body and headers and under the same environment, to server.py's
\* webhook(); what the first handler did is kept for comparison.
Replay ==
    /\ pc = "done"
    /\ first = None
    /\ module = "async_server"
    /\ first' = Some([response |-> response, comments |-> comments,
                      files |-> files, outcomes |-> outcomes,
                      calls |-> calls, raised |-> raised])
    /\ module' = "server"
    /\ pc' = "verify"
    /\ verified' = None
    /\ payload' = None
    /\ files' = <<>>
    /\ idx' = 1
    /\ tasks' = <<>>
    /\ results' = <<>>
    /\ finished' = <<>>
    /\ outcomes' = <<>>
    /\ issues' = <<>>
    /\ calls' = <<>>
    /\ comments' = <<>>
    /\ raised' = <<>>
    /\ response' = None
    /\ UNCHANGED << environ, request >>

NextTwin == Next \/ Replay

SpecTwin == Init /\ [][NextTwin]_vars

\* The source host answered the second handler as it answered the first:
\* every call both handlers made raised for both or for neither, and the
\* host listed the same changed files.  (server.py never receives an LLM
\* answer, so there is none to compare.)
SameAnswers ==
    /\ \A op \in { "get_github_client", "get_repo", "get_pull", "get_files",
                   "create_issue_comment" } :
         (CalledWith(op, NoArg) /\ FirstCalled(op, NoArg))
            => (RaisedFor(op, NoArg) <=> FirstRaised(op, NoArg))
    /\ (CalledWith("get_files", NoArg) /\ FirstCalled("get_files", NoArg))
            => files = first[1].files
    /\ \A f \in FileNames :
         (CalledWith("get_contents", f) /\ FirstCalled("get_contents", f))
            => (RaisedFor("get_contents", f) <=> FirstRaised("get_contents", f))

\* The filenames of a comment's sections, in order.
SectionFiles(posted) ==
    IF posted = <<>> THEN <<>>
    ELSE [n \in 1..Len(posted[1].sections) |-> posted[1].sections[n].filename]

\* C17: when server.py has answered a request that async_server.py answered
\* before, under the same answers of the source host, the two responses have
\* the same status and message, a comment was posted by both or by neither,
\* and the two comments have sections for the same files in the same order.
C17_HandlersEquivalent ==
    (first # None /\ Done /\ SameAnswers) =>
        /\ response[1].status = first[1].response[1].status
        /\ response[1].key = first[1].response[1].key
        /\ response[1].text = first[1].response[1].text
        /\ (comments = <<>>) <=> (first[1].comments = <<>>)
        /\ SectionFiles(comments) = SectionFiles(first[1].comments)
====
